---- MODULE Spec2Model ----
(***************************************************************************)
(* A model of the bot dispatch runtime of bottastic                        *)
(* (src/bottastic/bottastic.py): the Bottastic base class, the MeshtasticNode*)
(* handle, the module-level registry (_registered_bots, _connected_bots)   *)
(* and the two pubsub callbacks on_receive and on_connection.              *)
(*                                                                         *)
(* Spec      the dispatch runtime: construction, event_loop, the connect   *)
(*           sequence, packet routing, close.                              *)
(* SpecFail  Spec with self-info fetches that may raise inside _on_connect. *)
(* SpecRace  on_connection on the notification thread against the start of *)
(*           event_loop on the bot's thread, statement by statement, with   *)
(*           weak fairness of every thread step.                            *)
(* SpecOrder packets for a bot that has connected, with room for two        *)
(*           handlers on its loop.                                          *)
(* SpecSend  the node handle and the delivery path: attribute lookups and  *)
(*           send_message against a node directory drawn from a bounded set.*)
(***************************************************************************)
EXTENDS Naturals, Sequences, FiniteSets

\* ------------------------------------------------------------------ bounds
\* The coroutines a run may give to schedulers (those handed to a loop and
\* the _on_connect that event_loop awaits) plus the entries of the pending
\* list, all together.
MaxScheduled == 2
\* The sendData calls a run may make on one interface.
MaxSent == 2
\* The same count as MaxScheduled for the runs that start from a bot that has
\* connected: room for the connect sequence and two handlers.
MaxQueued == 3

\* --------------------------------------------------------------- constants
\* meshtastic.BROADCAST_NUM is 0xFFFFFFFF, beyond TLC's integers; the code
\* only compares it for equality, so the largest TLC integer stands for it.
BROADCAST_NUM == 2147483647

None == "None"
\* Two Bottastic instances: enough for bots that share an interface and for
\* bots on different interfaces.
Bots == 1..2
Conns == {"c1", "c2"}         \* MeshInterface objects, compared with `is`
Senders == {7}
Texts == {"ping"}

\* The node number the device behind an interface reports for itself.
getMyNodeInfo(c) == IF c = "c1" THEN 42 ELSE 99
\* The user record the device behind an interface reports for itself.
getMyUser(c) == IF c = "c1" THEN "!0000002a" ELSE "!00000063"

NodeNums == {getMyNodeInfo(c) : c \in Conns}

\* A packet as published on "meshtastic.receive": 'from' and 'to' are always
\* present; 'decoded' may be missing ("absent"), present without 'text'
\* ("no_text"), or carry a text; 'fromId' is a key the transport may leave
\* out.
Packets ==
    [from : Senders, to : NodeNums \cup {BROADCAST_NUM},
     decoded : {"absent", "no_text"} \cup Texts, hasFromId : BOOLEAN]

\* The remote nodes a MeshtasticNode handle may name.
NodeIds == {7, 8}

\* A node_info record of interface.nodesByNum: 'user' may be missing (<<>>);
\* when present, 'publicKey' may be missing (<<>>), empty or a base64 text.
UserRecord(num, publicKey) ==
    [id |-> IF num = 7 THEN "!00000007" ELSE "!00000008",
     shortName |-> IF num = 7 THEN "n7" ELSE "n8",
     longName |-> IF num = 7 THEN "node seven" ELSE "node eight",
     publicKey |-> publicKey]

NodeInfos(num) ==
    {[num |-> num, user |-> <<>>]}
    \cup {[num |-> num, user |-> <<UserRecord(num, pk)>>] :
             pk \in {<<>>, <<"">>, <<"a2V5">>}}

\* interface.nodesByNum: the empty function stands for None and for the
\* empty dict, both false in `if self.bottastic.interface.nodesByNum`.
NoDirectory == [n \in {} |-> 0]

Directories ==
    {NoDirectory}
    \cup {[n \in {8} |-> [num |-> 8, user |-> <<UserRecord(8, <<"a2V5">>)>>]]}
    \cup {[n \in {7} |-> e] : e \in NodeInfos(7)}
    \cup {[n \in NodeIds |->
              IF n = 7 THEN e
              ELSE [num |-> 8, user |-> <<UserRecord(8, <<"a2V5">>)>>]] :
           e \in NodeInfos(7)}

\* base64.b64decode on the texts of the model
b64decode(text) == IF text = "a2V5" THEN "key" ELSE ""

VARIABLES
    interface,        \* bot -> its MeshInterface, None before construction
    echo_sent,        \* bot -> BOOLEAN
    echo_received,    \* bot -> BOOLEAN
    loop,             \* bot -> TRUE once event_loop has stored the running loop
    my_node,          \* bot -> <<>> for None, or <<my_node["num"]>>
    my_user,          \* bot -> <<>> for None, or <<the user record>>
    _registered_bots, \* the module-level list of registered bots
    _connected_bots,  \* the module-level list of pending interfaces
    ev_connect,       \* bot -> position of the _on_connect awaited by event_loop
    tasks,            \* bot -> coroutines handed to run_coroutine_threadsafe
    closed,           \* interface -> TRUE once interface.close() was called
    console,          \* number of lines printed
    nodesByNum,       \* interface -> None or its node directory
    sent,             \* interface -> the sendData calls made on it
    calls             \* the on_connection and event_loop calls that are between two steps

vars == <<interface, echo_sent, echo_received, loop, my_node, my_user,
          _registered_bots, _connected_bots, ev_connect, tasks, closed,
          console, nodesByNum, sent, calls>>

botVars == <<interface, echo_sent, echo_received, loop, my_node, my_user>>
sendVars == <<nodesByNum, sent>>

\* ----------------------------------------------------------------- helpers
Range(s) == {s[i] : i \in 1..Len(s)}

\* list.remove(x): drops the first occurrence of x
RECURSIVE list_remove(_, _)
list_remove(s, x) ==
    IF s = <<>> THEN <<>>
    ELSE IF Head(s) = x THEN Tail(s)
    ELSE <<Head(s)>> \o list_remove(Tail(s), x)

RECURSIVE SumLen(_, _)
SumLen(f, S) ==
    IF S = {} THEN 0
    ELSE LET x == CHOOSE y \in S : TRUE IN Len(f[x]) + SumLen(f, S \ {x})

\* The coroutines given to schedulers so far, plus the pending entries.
Scheduled(ts, ev, pend) ==
    Cardinality({b \in Bots : ev[b] # "none"}) + SumLen(ts, Bots) + Len(pend)

\* A coroutine handed to a loop: its function, its arguments, its position.
Coroutine(kind, args) == [kind |-> kind, args |-> args, pc |-> "queued"]

\* No on_connection call is between two of its steps, and no event_loop is
\* between storing its loop and its look at the pending list.
NoCall == [on_connection |-> <<>>, event_loop |-> [b \in Bots |-> "-"]]

\* ------------------------------------------------------------------- Init
Init ==
    /\ interface = [b \in Bots |-> None]
    /\ echo_sent = [b \in Bots |-> FALSE]
    /\ echo_received = [b \in Bots |-> FALSE]
    /\ loop = [b \in Bots |-> FALSE]
    /\ my_node = [b \in Bots |-> <<>>]
    /\ my_user = [b \in Bots |-> <<>>]
    /\ _registered_bots = <<>>
    /\ _connected_bots = <<>>
    /\ ev_connect = [b \in Bots |-> "none"]
    /\ tasks = [b \in Bots |-> <<>>]
    /\ closed = [c \in Conns |-> FALSE]
    /\ console = 0
    /\ nodesByNum = [c \in Conns |-> NoDirectory]
    /\ sent = [c \in Conns |-> <<>>]
    /\ calls = NoCall

\* --------------------------------------------------------------- Bottastic
\* Bottastic.__init__(interface, echo_sent, echo_received).  Bots are
\* constructed in the order of their identifiers.
Bottastic_init(b, c, es, er) ==
    /\ interface[b] = None
    /\ \A a \in Bots : a < b => interface[a] # None
    /\ interface' = [interface EXCEPT ![b] = c]
    /\ echo_sent' = [echo_sent EXCEPT ![b] = es]
    /\ echo_received' = [echo_received EXCEPT ![b] = er]
    /\ loop' = [loop EXCEPT ![b] = FALSE]
    /\ my_node' = [my_node EXCEPT ![b] = <<>>]
    /\ my_user' = [my_user EXCEPT ![b] = <<>>]
    /\ _registered_bots' = Append(_registered_bots, b)
    /\ UNCHANGED <<_connected_bots, ev_connect, tasks, closed, console, sendVars, calls>>

\* event_loop as it would be without the look at the pending list.
event_loop_no_claim(b) ==
    /\ interface[b] # None
    /\ ~loop[b]
    /\ loop' = [loop EXCEPT ![b] = TRUE]
    /\ UNCHANGED <<interface, echo_sent, echo_received, my_node, my_user,
                   _registered_bots, _connected_bots, ev_connect, tasks,
                   closed, console, sendVars, calls>>

\* Bottastic.event_loop up to its first suspension: stores the loop, claims a
\* pending interface and, if it claimed one, enters _on_connect, which
\* submits getMyNodeInfo to the thread pool and awaits it.
event_loop(b) ==
    /\ interface[b] # None
    /\ ~loop[b]
    /\ loop' = [loop EXCEPT ![b] = TRUE]
    /\ IF interface[b] \in Range(_connected_bots)
       THEN /\ _connected_bots' = list_remove(_connected_bots, interface[b])
            /\ ev_connect' = [ev_connect EXCEPT ![b] = "getMyNodeInfo"]
       ELSE UNCHANGED <<_connected_bots, ev_connect>>
    /\ UNCHANGED <<interface, echo_sent, echo_received, my_node, my_user,
                   _registered_bots, tasks, closed, console, sendVars, calls>>

\* b's event_loop has ended with the exception of the _on_connect it awaited
\* (nothing catches it at line 181, nor in run); asyncio.run then closes the
\* loop, and self.loop keeps naming the closed loop.
LoopClosed(b) == ev_connect[b] = "raised"

\* asyncio.run_coroutine_threadsafe(coro, self.loop): a closed loop refuses
\* the callback with RuntimeError.
run_coroutine_threadsafe(b, coro) ==
    IF LoopClosed(b) THEN [raised |-> "RuntimeError", sched |-> <<>>]
    ELSE [raised |-> "none", sched |-> <<coro>>]

\* Bottastic._handle_on_connection: the outcome of the call, as the exception
\* raised and the coroutines handed to the bot's loop.
_handle_on_connection(b) ==
    IF ~loop[b]
    THEN [raised |-> "Loop not set up", sched |-> <<>>]
    ELSE run_coroutine_threadsafe(b, Coroutine("_on_connect", <<>>))

\* Bottastic._handle_on_receive: the outcome of the call, as the exception
\* raised, the coroutines handed to the bot's loop and the lines printed.
_handle_on_receive(b, packet) ==
    IF ~loop[b] \/ my_node[b] = <<>>
    THEN [raised |-> "none", sched |-> <<>>, echo |-> 0]
    ELSE IF packet.decoded \in {"absent", "no_text"}
    THEN [raised |-> "none", sched |-> <<>>, echo |-> 0]
    ELSE IF packet.to = BROADCAST_NUM
    THEN IF echo_received[b] /\ ~packet.hasFromId
         THEN [raised |-> "KeyError", sched |-> <<>>, echo |-> 0]
         ELSE LET r == run_coroutine_threadsafe(b,
                           Coroutine("handle_message", <<packet.from, packet.decoded>>))
              IN [raised |-> r.raised, sched |-> r.sched,
                  echo |-> IF echo_received[b] THEN 1 ELSE 0]
    ELSE IF packet.to # my_node[b][1]
    THEN [raised |-> "none", sched |-> <<>>, echo |-> 0]
    ELSE IF echo_received[b] /\ ~packet.hasFromId
         THEN [raised |-> "KeyError", sched |-> <<>>, echo |-> 0]
         ELSE LET r == run_coroutine_threadsafe(b,
                           Coroutine("handle_direct_message", <<packet.from, packet.decoded>>))
              IN [raised |-> r.raised, sched |-> r.sched,
                  echo |-> IF echo_received[b] THEN 1 ELSE 0]

\* close as it would be without the removal from the registry.
close_no_remove(b) ==
    /\ interface[b] # None
    /\ closed' = [closed EXCEPT ![interface[b]] = TRUE]
    /\ UNCHANGED <<botVars, _registered_bots, _connected_bots, ev_connect,
                   tasks, console, sendVars, calls>>

\* Bottastic.close
close(b) ==
    /\ interface[b] # None
    /\ closed' = [closed EXCEPT ![interface[b]] = TRUE]
    /\ IF b \in Range(_registered_bots)
       THEN /\ _registered_bots' = list_remove(_registered_bots, b)
       ELSE /\ UNCHANGED _registered_bots
    /\ UNCHANGED <<botVars, _connected_bots, ev_connect, tasks, console, sendVars, calls>>

\* ------------------------------------------------------- pubsub callbacks
\* The for loop of on_receive from index i on: acc carries the coroutine
\* lists, the lines printed and the exception that ended the loop.
RECURSIVE on_receive_loop(_, _, _, _)
on_receive_loop(i, packet, c, acc) ==
    IF i > Len(_registered_bots) THEN acc
    ELSE LET b == _registered_bots[i] IN
         IF interface[b] # c THEN on_receive_loop(i + 1, packet, c, acc)
         ELSE LET r == _handle_on_receive(b, packet) IN
              IF r.raised # "none"
              THEN [acc EXCEPT !.raised = r.raised, !.console = @ + r.echo]
              ELSE on_receive_loop(i + 1, packet, c,
                       [acc EXCEPT !.tasks[b] = @ \o r.sched,
                                   !.console = @ + r.echo])

\* What a call on_receive(packet, c) does in the current state.
on_receive_outcome(packet, c) ==
    on_receive_loop(1, packet, c,
        [tasks |-> tasks, console |-> console, raised |-> "none"])

\* on_receive in a run that gives at most `budget` coroutines to schedulers.
on_receive_within(packet, c, budget) ==
    LET r == on_receive_outcome(packet, c)
    IN /\ Scheduled(r.tasks, ev_connect, _connected_bots) <= budget
       /\ r.console <= budget
       /\ tasks' = r.tasks
       /\ console' = r.console
       /\ UNCHANGED <<botVars, _registered_bots, _connected_bots, ev_connect,
                      closed, sendVars, calls>>

on_receive(packet, c) == on_receive_within(packet, c, MaxScheduled)

\* The for loop of on_connection as it would be without the test of the
\* bot's loop at line 201: the first registered bot bound to c from index i
\* on, or 0.
on_connection_loop_unready(i, c) ==
    LET bound == SelectSeq(SubSeq(_registered_bots, i, Len(_registered_bots)),
                           LAMBDA b : interface[b] = c)
    IN IF bound = <<>> THEN 0 ELSE Head(bound)

\* The for loop of on_connection from index i on: the first registered bot
\* bound to c whose loop is set, or 0 when the loop falls through.
RECURSIVE on_connection_loop(_, _)
on_connection_loop(i, c) ==
    IF i > Len(_registered_bots) THEN 0
    ELSE LET b == _registered_bots[i] IN
         IF interface[b] = c /\ loop[b] THEN b
         ELSE on_connection_loop(i + 1, c)

\* on_connection as it would be without the return after the first match:
\* the interface is appended to the pending list as well.
on_connection_no_return(c) ==
    LET b == on_connection_loop(1, c) IN
    /\ Scheduled(tasks, ev_connect, _connected_bots) < MaxScheduled
    /\ IF b # 0
       THEN tasks' = [tasks EXCEPT ![b] = @ \o _handle_on_connection(b).sched]
       ELSE UNCHANGED tasks
    /\ _connected_bots' = Append(_connected_bots, c)
    /\ UNCHANGED <<botVars, _registered_bots, ev_connect, closed, console, sendVars, calls>>

\* on_connection as it would be without the identity test on the interface:
\* the first registered bot whose loop is set gets the connect sequence.
on_connection_any(c) ==
    LET running == SelectSeq(_registered_bots, LAMBDA b : loop[b]) IN
    /\ Scheduled(tasks, ev_connect, _connected_bots) < MaxScheduled
    /\ IF running # <<>>
       THEN /\ tasks' = [tasks EXCEPT ![Head(running)] =
                            @ \o _handle_on_connection(Head(running)).sched]
            /\ UNCHANGED _connected_bots
       ELSE /\ _connected_bots' = Append(_connected_bots, c)
            /\ UNCHANGED tasks
    /\ UNCHANGED <<botVars, _registered_bots, ev_connect, closed, console,
                   sendVars, calls>>

\* on_connection as it would be without the return at line 203 and with the
\* append kept for the case of no match: every registered bot bound to c
\* whose loop is set gets the connect sequence.
on_connection_every(c) ==
    /\ Scheduled(tasks, ev_connect, _connected_bots) < MaxScheduled
    /\ IF on_connection_loop(1, c) # 0
       THEN /\ tasks' = [b \in Bots |->
                            IF b \in Range(_registered_bots) /\ interface[b] = c /\ loop[b]
                            THEN tasks[b] \o _handle_on_connection(b).sched
                            ELSE tasks[b]]
            /\ UNCHANGED _connected_bots
       ELSE /\ _connected_bots' = Append(_connected_bots, c)
            /\ UNCHANGED tasks
    /\ UNCHANGED <<botVars, _registered_bots, ev_connect, closed, console,
                   sendVars, calls>>

\* on_connection as it would be if it ran the first fetch of the connect
\* sequence itself instead of handing the whole sequence to the bot's loop.
on_connection_inline(c) ==
    LET b == on_connection_loop(1, c) IN
    /\ Scheduled(tasks, ev_connect, _connected_bots) < MaxScheduled
    /\ IF b # 0
       THEN /\ my_node' = [my_node EXCEPT ![b] = <<getMyNodeInfo(c)>>]
            /\ tasks' = [tasks EXCEPT ![b] =
                            Append(@, [Coroutine("_on_connect", <<>>)
                                          EXCEPT !.pc = "getMyUser"])]
            /\ UNCHANGED _connected_bots
       ELSE /\ _connected_bots' = Append(_connected_bots, c)
            /\ UNCHANGED <<tasks, my_node>>
    /\ UNCHANGED <<interface, echo_sent, echo_received, loop, my_user,
                   _registered_bots, ev_connect, closed, console, sendVars, calls>>

on_connection(c) ==
    LET b == on_connection_loop(1, c) IN
    /\ Scheduled(tasks, ev_connect, _connected_bots) < MaxScheduled
    /\ IF b # 0
       THEN LET r == _handle_on_connection(b) IN
            /\ tasks' = [tasks EXCEPT ![b] = @ \o r.sched]
            /\ UNCHANGED _connected_bots
       ELSE /\ _connected_bots' = Append(_connected_bots, c)
            /\ UNCHANGED tasks
    /\ UNCHANGED <<botVars, _registered_bots, ev_connect, closed, console, sendVars, calls>>

\* ------------------------------------------------------------ the scheduler
\* The index of the first coroutine of b's loop that has not started, or 0.
FirstQueued(b) ==
    IF \E k \in 1..Len(tasks[b]) : tasks[b][k].pc = "queued"
    THEN CHOOSE k \in 1..Len(tasks[b]) :
            /\ tasks[b][k].pc = "queued"
            /\ \A j \in 1..(k - 1) : tasks[b][j].pc # "queued"
    ELSE 0

\* A loop that starts the coroutine handed to it last.
run_coroutine_last(b) ==
    LET queued == {k \in 1..Len(tasks[b]) : tasks[b][k].pc = "queued"} IN
    /\ loop[b]
    /\ ~LoopClosed(b)
    /\ calls.event_loop[b] = "-"
    /\ queued # {}
    /\ LET k == CHOOSE j \in queued : \A i \in queued : i <= j
       IN tasks' = [tasks EXCEPT ![b][k].pc =
                       IF tasks[b][k].kind = "_on_connect" THEN "getMyNodeInfo"
                       ELSE "done"]
    /\ UNCHANGED <<botVars, _registered_bots, _connected_bots, ev_connect,
                   closed, console, sendVars, calls>>

\* b's loop starts the next coroutine handed to it.  A handler (body `pass`)
\* runs to completion; _on_connect submits getMyNodeInfo and suspends.
run_coroutine(b) ==
    LET k == FirstQueued(b) IN
    /\ loop[b]
    /\ ~LoopClosed(b)
    /\ calls.event_loop[b] = "-"
    /\ k # 0
    /\ tasks' = [tasks EXCEPT ![b][k].pc =
                    IF tasks[b][k].kind = "_on_connect" THEN "getMyNodeInfo"
                    ELSE "done"]
    /\ UNCHANGED <<botVars, _registered_bots, _connected_bots, ev_connect,
                   closed, console, sendVars, calls>>

\* The position after one step of _on_connect from position pc.
_on_connect_next(pc) ==
    IF pc = "getMyNodeInfo" THEN "getMyUser" ELSE "done"

\* One step of an _on_connect coroutine of bot b: k = 0 is the one awaited by
\* event_loop, k > 0 the k-th coroutine handed to b's loop.  The first await
\* stores my_node; the second stores my_user and runs on_initialized (body
\* `pass`) to completion.
_on_connect(b, k) ==
    LET pc == IF k = 0 THEN ev_connect[b] ELSE tasks[b][k].pc IN
    /\ loop[b]
    /\ ~LoopClosed(b)
    /\ calls.event_loop[b] = "-"
    /\ k = 0 \/ (k \in 1..Len(tasks[b]) /\ tasks[b][k].kind = "_on_connect")
    /\ pc \in {"getMyNodeInfo", "getMyUser"}
    /\ IF pc = "getMyNodeInfo"
       THEN /\ my_node' = [my_node EXCEPT ![b] = <<getMyNodeInfo(interface[b])>>]
            /\ UNCHANGED my_user
       ELSE /\ my_user' = [my_user EXCEPT ![b] = <<getMyUser(interface[b])>>]
            /\ UNCHANGED my_node
    /\ IF k = 0
       THEN /\ ev_connect' = [ev_connect EXCEPT ![b] = _on_connect_next(pc)]
            /\ UNCHANGED tasks
       ELSE /\ tasks' = [tasks EXCEPT ![b][k].pc = _on_connect_next(pc)]
            /\ UNCHANGED ev_connect
    /\ UNCHANGED <<interface, echo_sent, echo_received, loop, _registered_bots,
                   _connected_bots, closed, console, sendVars, calls>>

\* The fetch that an _on_connect coroutine of bot b awaits raises (k as in
\* _on_connect).  The coroutine ends with the exception: a coroutine handed
\* to the loop keeps it in its future; the one event_loop awaits passes it on
\* to event_loop, which ends with it.
_on_connect_raises(b, k) ==
    LET pc == IF k = 0 THEN ev_connect[b] ELSE tasks[b][k].pc IN
    /\ loop[b]
    /\ ~LoopClosed(b)
    /\ calls.event_loop[b] = "-"
    /\ k = 0 \/ (k \in 1..Len(tasks[b]) /\ tasks[b][k].kind = "_on_connect")
    /\ pc \in {"getMyNodeInfo", "getMyUser"}
    /\ IF k = 0
       THEN /\ ev_connect' = [ev_connect EXCEPT ![b] = "raised"]
            /\ UNCHANGED tasks
       ELSE /\ tasks' = [tasks EXCEPT ![b][k].pc = "raised"]
            /\ UNCHANGED ev_connect
    /\ UNCHANGED <<botVars, _registered_bots, _connected_bots, closed, console,
                   sendVars, calls>>

\* ------------------------------------------------------------------- Next
\* echo_sent keeps its default (False) here: only send_message reads it, and
\* SpecSend draws it from BOOLEAN.
Next ==
    \/ \E b \in Bots, c \in Conns, er \in BOOLEAN : Bottastic_init(b, c, FALSE, er)
    \/ \E b \in Bots : event_loop(b)
    \/ \E b \in Bots : close(b)
    \/ \E c \in Conns : on_connection(c)
    \/ \E c \in Conns, packet \in Packets : on_receive(packet, c)
    \/ \E b \in Bots : run_coroutine(b)
    \/ \E b \in Bots, k \in 0..MaxScheduled : _on_connect(b, k)

Spec == Init /\ [][Next]_vars

\* The dispatch runtime with fetches that may fail.
NextFail ==
    \/ Next
    \/ \E b \in Bots, k \in 0..MaxScheduled : _on_connect_raises(b, k)

SpecFail == Init /\ [][NextFail]_vars

\* ------------------------------------------- the two threads, step by step
\* on_connection runs on the notification thread and event_loop on the bot's
\* own thread; the steps below are the statements at which they read or write
\* what the other one writes or reads (loop, _connected_bots).

\* on_connection(c) is called: its for loop is about to start.
on_connection_call(c) ==
    /\ calls.on_connection = <<>>
    /\ Scheduled(tasks, ev_connect, _connected_bots) < MaxScheduled
    /\ calls' = [calls EXCEPT !.on_connection = <<[interface |-> c, i |-> 1]>>]
    /\ UNCHANGED <<botVars, _registered_bots, _connected_bots, ev_connect,
                   tasks, closed, console, sendVars>>

\* The next step of the on_connection call in flight: one turn of the for
\* loop (the test of line 201 and, when it holds, lines 202-203), or the
\* append of line 204 when the loop has run out.
on_connection_step ==
    /\ calls.on_connection # <<>>
    /\ LET c == calls.on_connection[1].interface
           i == calls.on_connection[1].i
       IN IF i > Len(_registered_bots)
          THEN /\ _connected_bots' = Append(_connected_bots, c)
               /\ calls' = [calls EXCEPT !.on_connection = <<>>]
               /\ UNCHANGED tasks
          ELSE LET b == _registered_bots[i] IN
               IF interface[b] = c /\ loop[b]
               THEN /\ tasks' = [tasks EXCEPT
                                   ![b] = @ \o _handle_on_connection(b).sched]
                    /\ calls' = [calls EXCEPT !.on_connection = <<>>]
                    /\ UNCHANGED _connected_bots
               ELSE /\ calls' = [calls EXCEPT !.on_connection[1].i = i + 1]
                    /\ UNCHANGED <<tasks, _connected_bots>>
    /\ UNCHANGED <<botVars, _registered_bots, ev_connect, closed, console, sendVars>>

\* event_loop, line 178: self.loop = asyncio.get_running_loop()
event_loop_set_loop(b) ==
    /\ interface[b] # None
    /\ ~loop[b]
    /\ calls.event_loop[b] = "-"
    /\ loop' = [loop EXCEPT ![b] = TRUE]
    /\ calls' = [calls EXCEPT !.event_loop[b] = "test"]
    /\ UNCHANGED <<interface, echo_sent, echo_received, my_node, my_user,
                   _registered_bots, _connected_bots, ev_connect, tasks,
                   closed, console, sendVars>>

\* event_loop, line 179: if self.interface in _connected_bots
event_loop_test(b) ==
    /\ calls.event_loop[b] = "test"
    /\ calls' = [calls EXCEPT !.event_loop[b] =
                    IF interface[b] \in Range(_connected_bots) THEN "remove"
                    ELSE "-"]
    /\ UNCHANGED <<botVars, _registered_bots, _connected_bots, ev_connect,
                   tasks, closed, console, sendVars>>

\* event_loop, lines 180-181: the remove (ValueError when another thread took
\* the entry meanwhile, which ends event_loop) and the entry into _on_connect.
event_loop_remove(b) ==
    /\ calls.event_loop[b] = "remove"
    /\ calls' = [calls EXCEPT !.event_loop[b] = "-"]
    /\ IF interface[b] \in Range(_connected_bots)
       THEN /\ _connected_bots' = list_remove(_connected_bots, interface[b])
            /\ ev_connect' = [ev_connect EXCEPT ![b] = "getMyNodeInfo"]
       ELSE /\ ev_connect' = [ev_connect EXCEPT ![b] = "raised"]
            /\ UNCHANGED _connected_bots
    /\ UNCHANGED <<botVars, _registered_bots, tasks, closed, console, sendVars>>

\* Bot 1 on "c1" and bot 2 on "c2", constructed, neither running yet.
InitRace ==
    /\ interface = [b \in Bots |-> IF b = 1 THEN "c1" ELSE "c2"]
    /\ echo_sent = [b \in Bots |-> FALSE]
    /\ echo_received = [b \in Bots |-> FALSE]
    /\ loop = [b \in Bots |-> FALSE]
    /\ my_node = [b \in Bots |-> <<>>]
    /\ my_user = [b \in Bots |-> <<>>]
    /\ _registered_bots = <<1, 2>>
    /\ _connected_bots = <<>>
    /\ ev_connect = [b \in Bots |-> "none"]
    /\ tasks = [b \in Bots |-> <<>>]
    /\ closed = [c \in Conns |-> FALSE]
    /\ console = 0
    /\ nodesByNum = [c \in Conns |-> NoDirectory]
    /\ sent = [c \in Conns |-> <<>>]
    /\ calls = NoCall

NextRace ==
    \/ \E c \in Conns : on_connection_call(c)
    \/ on_connection_step
    \/ \E b \in Bots : event_loop_set_loop(b)
    \/ \E b \in Bots : event_loop_test(b)
    \/ \E b \in Bots : event_loop_remove(b)
    \/ \E b \in Bots : run_coroutine(b)
    \/ \E b \in Bots, k \in 0..MaxScheduled : _on_connect(b, k)

\* Every thread that can take a step eventually takes it; nothing obliges the
\* transport to publish another event.
SpecRace ==
    /\ InitRace
    /\ [][NextRace]_vars
    /\ WF_vars(on_connection_step)
    /\ \A b \in Bots :
          /\ WF_vars(event_loop_set_loop(b))
          /\ WF_vars(event_loop_test(b))
          /\ WF_vars(event_loop_remove(b))
          /\ WF_vars(run_coroutine(b))
          /\ WF_vars(\E k \in 0..MaxScheduled : _on_connect(b, k))

\* ------------------------------------------------- packets for a ready bot
\* Bot 1 on "c1" after its event_loop claimed the pending interface and the
\* connect sequence ran, with either echo_received; bot 2 on "c2" with its
\* scheduler running and no connection event yet.
InitOrder ==
    /\ interface = [b \in Bots |-> IF b = 1 THEN "c1" ELSE "c2"]
    /\ echo_sent = [b \in Bots |-> FALSE]
    /\ echo_received \in {[b \in Bots |-> b = 1 /\ er] : er \in BOOLEAN}
    /\ loop = [b \in Bots |-> TRUE]
    /\ my_node = [b \in Bots |-> IF b = 1 THEN <<getMyNodeInfo("c1")>> ELSE <<>>]
    /\ my_user = [b \in Bots |-> IF b = 1 THEN <<getMyUser("c1")>> ELSE <<>>]
    /\ _registered_bots = <<1, 2>>
    /\ _connected_bots = <<>>
    /\ ev_connect = [b \in Bots |-> IF b = 1 THEN "done" ELSE "none"]
    /\ tasks = [b \in Bots |-> <<>>]
    /\ closed = [c \in Conns |-> FALSE]
    /\ console = 0
    /\ nodesByNum = [c \in Conns |-> NoDirectory]
    /\ sent = [c \in Conns |-> <<>>]
    /\ calls = NoCall

NextOrder ==
    \/ \E c \in Conns, packet \in Packets : on_receive_within(packet, c, MaxQueued)
    \/ \E c \in Conns : on_connection(c)
    \/ \E b \in Bots : run_coroutine(b)
    \/ \E b \in Bots, k \in 0..MaxScheduled : _on_connect(b, k)

SpecOrder == InitOrder /\ [][NextOrder]_vars

\* ---------------------------------------------------------- MeshtasticNode
\* The outcome of an attribute lookup: the exception raised and the value.
Raise(exc) == [raised |-> exc, value |-> <<>>]
Return(v) == [raised |-> "none", value |-> <<v>>]

\* MeshtasticNode.node_info of the handle (b, num)
node_info(b, num) ==
    LET directory == nodesByNum[interface[b]] IN
    IF DOMAIN directory # {}
    THEN IF num \in DOMAIN directory THEN Return(directory[num])
         ELSE Raise("KeyError")
    ELSE Raise("ValueError")

\* self.node_info["user"][field]
user_field(b, num, field) ==
    LET info == node_info(b, num) IN
    IF info.raised # "none" THEN info
    ELSE IF info.value[1].user = <<>> THEN Raise("KeyError")
    ELSE Return(info.value[1].user[1][field])

\* MeshtasticNode.id, short_name, long_name
MeshtasticNode_id(b, num) == user_field(b, num, "id")
MeshtasticNode_short_name(b, num) == user_field(b, num, "shortName")
MeshtasticNode_long_name(b, num) == user_field(b, num, "longName")

\* MeshtasticNode.key
MeshtasticNode_key(b, num) ==
    LET publicKey == user_field(b, num, "publicKey") IN
    IF publicKey.raised # "none" THEN publicKey
    ELSE IF publicKey.value[1] = <<>> THEN Raise("KeyError")
    ELSE Return(b64decode(publicKey.value[1][1]))

\* One interface.sendData call.
SendData(b, text, destinationId, want_response, pkiEncrypted, publicKey) ==
    [bot |-> b, data |-> text, destinationId |-> destinationId,
     wantAck |-> want_response, wantResponse |-> want_response,
     onResponse |-> want_response, pkiEncrypted |-> pkiEncrypted,
     publicKey |-> publicKey, delivered |-> FALSE]

\* MeshtasticNode.send_message of the handle (b, num): the exception raised,
\* the sendData calls made and the lines printed.
MeshtasticNode_send_message_outcome(b, num, text, require_encryption, want_response) ==
    LET key == MeshtasticNode_key(b, num) IN
    IF key.raised # "none"
    THEN [raised |-> key.raised, sent |-> <<>>, echo |-> 0]
    ELSE IF key.value[1] = "" /\ require_encryption
    THEN [raised |-> "NoEncryptionKey", sent |-> <<>>, echo |-> 0]
    ELSE [raised |-> "none",
          sent |-> <<SendData(b, text, num, want_response, TRUE, key.value)>>,
          echo |-> IF echo_sent[b] THEN 1 ELSE 0]

MeshtasticNode_send_message(b, num, text, require_encryption, want_response) ==
    LET r == MeshtasticNode_send_message_outcome(
                 b, num, text, require_encryption, want_response)
    IN /\ interface[b] # None
       /\ Len(sent[interface[b]]) < MaxSent
       /\ sent' = [sent EXCEPT ![interface[b]] = @ \o r.sent]
       /\ console' = console + r.echo
       /\ UNCHANGED <<botVars, _registered_bots, _connected_bots, ev_connect,
                      tasks, closed, nodesByNum, calls>>

\* Bottastic.send_message: sendData with its default destination (broadcast)
\* and no public key.
Bottastic_send_message(b, text, want_response) ==
    /\ interface[b] # None
    /\ Len(sent[interface[b]]) < MaxSent
    /\ sent' = [sent EXCEPT ![interface[b]] =
                  Append(@, SendData(b, text, BROADCAST_NUM, want_response,
                                     FALSE, <<>>))]
    /\ console' = console + (IF echo_sent[b] THEN 1 ELSE 0)
    /\ UNCHANGED <<botVars, _registered_bots, _connected_bots, ev_connect,
                   tasks, closed, nodesByNum, calls>>

\* The transport calls the onResponse of the i-th sendData call on c:
\* _on_deliver prints when both echo flags are set.
_on_deliver(c, i) ==
    /\ i \in 1..Len(sent[c])
    /\ sent[c][i].onResponse
    /\ ~sent[c][i].delivered
    /\ sent' = [sent EXCEPT ![c][i].delivered = TRUE]
    /\ console' = console +
          (IF echo_sent[sent[c][i].bot] /\ echo_received[sent[c][i].bot]
           THEN 1 ELSE 0)
    /\ UNCHANGED <<botVars, _registered_bots, _connected_bots, ev_connect,
                   tasks, closed, nodesByNum, calls>>

\* A bot on "c1" after its event_loop claimed the pending interface and the
\* connect sequence ran, with any echo flags and any node directory.
InitSend ==
    /\ interface = [b \in Bots |-> IF b = 1 THEN "c1" ELSE None]
    /\ echo_sent \in {[b \in Bots |-> b = 1 /\ es] : es \in BOOLEAN}
    /\ echo_received \in {[b \in Bots |-> b = 1 /\ er] : er \in BOOLEAN}
    /\ loop = [b \in Bots |-> b = 1]
    /\ my_node = [b \in Bots |-> IF b = 1 THEN <<getMyNodeInfo("c1")>> ELSE <<>>]
    /\ my_user = [b \in Bots |-> IF b = 1 THEN <<getMyUser("c1")>> ELSE <<>>]
    /\ _registered_bots = <<1>>
    /\ _connected_bots = <<>>
    /\ ev_connect = [b \in Bots |-> IF b = 1 THEN "done" ELSE "none"]
    /\ tasks = [b \in Bots |-> <<>>]
    /\ closed = [c \in Conns |-> FALSE]
    /\ console = 0
    /\ nodesByNum \in {[c \in Conns |-> IF c = "c1" THEN d ELSE NoDirectory] :
                         d \in Directories}
    /\ sent = [c \in Conns |-> <<>>]
    /\ calls = NoCall

NextSend ==
    \/ \E num \in NodeIds, text \in Texts, re \in BOOLEAN, wr \in BOOLEAN :
          MeshtasticNode_send_message(1, num, text, re, wr)
    \/ \E text \in Texts, wr \in BOOLEAN : Bottastic_send_message(1, text, wr)
    \/ \E c \in Conns, i \in 1..MaxSent : _on_deliver(c, i)

SpecSend == InitSend /\ [][NextSend]_vars

\* ================================================================== claims
\* The registered bots bound to interface c, in registration order.
BoundTo(c) == SelectSeq(_registered_bots, LAMBDA b : interface[b] = c)

\* Bot b can be dispatched to: registered, scheduler running, my_node set.
Ready(b) ==
    /\ b \in Range(_registered_bots)
    /\ loop[b]
    /\ my_node[b] # <<>>

\* The functions of the coroutines a call on_receive(packet, c) hands to b's
\* loop in the current state.
NewHandlers(b, packet, c) ==
    LET new == on_receive_outcome(packet, c).tasks[b] IN
    [k \in 1..(Len(new) - Len(tasks[b])) |-> new[Len(tasks[b]) + k].kind]

\* The _on_connect coroutines of b that exist (awaited by event_loop or
\* handed to b's loop).
ConnectSequences(b) ==
    (IF ev_connect[b] # "none" THEN 1 ELSE 0)
    + Cardinality({k \in 1..Len(tasks[b]) : tasks[b][k].kind = "_on_connect"})

\* The _on_connect coroutines of b that have started running.
ConnectsStarted(b) ==
    (IF ev_connect[b] # "none" THEN 1 ELSE 0)
    + Cardinality({k \in 1..Len(tasks[b]) :
                      tasks[b][k].kind = "_on_connect" /\ tasks[b][k].pc # "queued"})

\* The _on_connect coroutines of b that have finished: on_initialized has
\* completed.
Initializations(b) ==
    (IF ev_connect[b] = "done" THEN 1 ELSE 0)
    + Cardinality({k \in 1..Len(tasks[b]) :
                      tasks[b][k].kind = "_on_connect" /\ tasks[b][k].pc = "done"})

Count(s, x) == Cardinality({i \in 1..Len(s) : s[i] = x})

\* A closed bot: constructed and no longer in the registry.
IsClosed(b) == interface[b] # None /\ b \notin Range(_registered_bots)

\* C1: for every ready registered bot b bound to c and every packet on c with
\* a decoded text, on_receive hands b's loop exactly handle_message when the
\* packet is addressed to the broadcast address, exactly
\* handle_direct_message when it is addressed to b's node number, and nothing
\* otherwise.
C1_RoutedByAddress ==
    \A c \in Conns, packet \in Packets, b \in Bots :
        (Ready(b) /\ interface[b] = c /\ packet.decoded \in Texts) =>
            NewHandlers(b, packet, c) =
                IF packet.to = BROADCAST_NUM THEN <<"handle_message">>
                ELSE IF packet.to = my_node[b][1] THEN <<"handle_direct_message">>
                ELSE <<>>

\* C2: no step hands a handler (handle_message, handle_direct_message) to a
\* bot's loop before on_initialized has completed for that bot.
C2_NoHandlerBeforeInitialized ==
    [][\A b \in Bots :
          (/\ Len(tasks'[b]) > Len(tasks[b])
           /\ tasks'[b][Len(tasks'[b])].kind # "_on_connect")
          => Initializations(b) > 0]_vars

C4_RoutedDirectly ==
    [][\A c \in Conns :
          (on_connection(c) /\ \E b \in Range(BoundTo(c)) : loop[b])
          => LET started == SelectSeq(BoundTo(c), LAMBDA b : loop[b])
                 first == Head(started)
             IN /\ _connected_bots' = _connected_bots
                /\ tasks' = [tasks EXCEPT ![first] =
                                Append(@, Coroutine("_on_connect", <<>>))]]_vars

\* C4 witness: a bot with a running scheduler was handed _on_connect by
\* on_connection and the pending list is empty.
C4_Witness ==
    \E b \in Bots :
        /\ loop[b]
        /\ ev_connect[b] = "none"
        /\ \E k \in 1..Len(tasks[b]) : tasks[b][k].kind = "_on_connect"
        /\ _connected_bots = <<>>

\* C5: every bot runs its connect sequence at most once and its
\* on_initialized hook at most once.
C5_ConnectAtMostOnce ==
    \A b \in Bots : ConnectsStarted(b) <= 1 /\ Initializations(b) <= 1

\* C9: close closes the bot's interface and takes the bot out of the
\* registry; a closed bot stays closed, and no later step (so no on_receive
\* and no on_connection call) hands a coroutine to its loop or, once its
\* scheduler runs, starts a connect sequence on it.
C9_ClosedBotGetsNothing ==
    [][\A b \in Bots :
          /\ (close(b) /\ ~IsClosed(b))
             => closed'[interface[b]] /\ IsClosed(b)'
          /\ IsClosed(b)
             => /\ IsClosed(b)'
                /\ Len(tasks'[b]) = Len(tasks[b])
                /\ (loop[b] /\ ev_connect[b] = "none") => ev_connect'[b] = "none"]_vars

\* C9 witness: a bot that was ready for dispatch (scheduler running, my_node
\* set) has been closed, its interface is closed, and its loop was handed
\* only the connect sequence.
C9_Witness ==
    \E b \in Bots :
        /\ IsClosed(b)
        /\ closed[interface[b]]
        /\ loop[b]
        /\ my_node[b] # <<>>
        /\ \A k \in 1..Len(tasks[b]) : tasks[b][k].kind = "_on_connect"

\* C10: when several registered bots are bound to the same interface,
\* on_receive hands a packet of that interface to the first registered of
\* them only.
C10_FirstMatchOnly ==
    \A c \in Conns, packet \in Packets, b \in Bots :
        NewHandlers(b, packet, c) # <<>> => b = Head(BoundTo(c))

\* The public key of node num cannot be resolved on b's interface: there is
\* no node directory, the node is not in it, or its record has no publicKey.
KeyUnresolvable(b, num) ==
    LET directory == nodesByNum[interface[b]] IN
    \/ DOMAIN directory = {}
    \/ num \notin DOMAIN directory
    \/ directory[num].user = <<>>
    \/ directory[num].user[1].publicKey = <<>>

\* C6: send_message with require_encryption=True to a node whose public key
\* cannot be resolved raises NoEncryptionKey and makes no sendData call.
C6_NoKeyRaisesNoEncryptionKey ==
    \A num \in NodeIds, text \in Texts, wr \in BOOLEAN :
        KeyUnresolvable(1, num) =>
            LET r == MeshtasticNode_send_message_outcome(1, num, text, TRUE, wr)
            IN r.raised = "NoEncryptionKey" /\ r.sent = <<>>

\* C7: send_message with require_encryption=False to a node whose public key
\* cannot be resolved does not fail and makes exactly one sendData call, not
\* PKI-encrypted and without a public key.
C7_NoKeySendsUnencrypted ==
    \A num \in NodeIds, text \in Texts, wr \in BOOLEAN :
        KeyUnresolvable(1, num) =>
            LET r == MeshtasticNode_send_message_outcome(1, num, text, FALSE, wr)
            IN /\ r.raised = "none"
               /\ Len(r.sent) = 1
               /\ ~r.sent[1].pkiEncrypted
               /\ r.sent[1].publicKey = <<>>

\* C8: for a node that has no entry in the node directory, or when there is
\* no directory, no attribute lookup of the handle (id, short_name,
\* long_name, key) raises.
C8_AbsentNodeLookupsDoNotRaise ==
    \A num \in NodeIds :
        LET directory == nodesByNum[interface[1]] IN
        (DOMAIN directory = {} \/ num \notin DOMAIN directory) =>
            /\ MeshtasticNode_id(1, num).raised = "none"
            /\ MeshtasticNode_short_name(1, num).raised = "none"
            /\ MeshtasticNode_long_name(1, num).raised = "none"
            /\ MeshtasticNode_key(1, num).raised = "none"

\* C11: in every reachable state no interface is both in the pending list
\* (_connected_bots) and bound to a registered bot whose scheduler is running;
\* in particular an interface that a bot's event_loop has claimed is no longer
\* pending.
C11_PendingOrRunning ==
    \A c \in Conns :
        ~(/\ c \in Range(_connected_bots)
          /\ \E b \in Range(BoundTo(c)) : loop[b])

\* C12: whenever on_connection(c) has been called for the interface of a bot
\* b (the only bot bound to c), in every interleaving of the call with the
\* start of b's event_loop the connect sequence of b eventually runs.
C12_EventEventuallyConnects ==
    \A b \in Bots :
        (/\ calls.on_connection # <<>>
         /\ calls.on_connection[1].interface = interface[b])
        ~> (ConnectsStarted(b) > 0)

\* C13: in every reachable state, for every interface and every packet (with
\* 'from' and 'to', with or without 'decoded', 'text' and 'fromId'), neither
\* on_receive(packet, c) nor on_connection(c) raises to its caller.
C13_CallbacksNeverRaise ==
    \A c \in Conns :
        /\ \A packet \in Packets : on_receive_outcome(packet, c).raised = "none"
        /\ LET b == on_connection_loop(1, c)
           IN b # 0 => _handle_on_connection(b).raised = "none"

\* C15: two bots that differ at most in echo_received (same scheduler state,
\* same my_node) are handed the same coroutines by _handle_on_receive for
\* every packet: the echo flag neither changes nor prevents dispatch.
C15_EchoDoesNotChangeDispatch ==
    \A a \in Bots, b \in Bots, packet \in Packets :
        (/\ interface[a] # None
         /\ interface[b] # None
         /\ loop[a] = loop[b]
         /\ LoopClosed(a) = LoopClosed(b)
         /\ my_node[a] = my_node[b])
        => _handle_on_receive(a, packet).sched = _handle_on_receive(b, packet).sched

\* C14: a failure raised inside a bot's connect sequence, whether the
\* sequence was handed to the loop by on_connection or is the one event_loop
\* awaits after claiming a pending interface, never ends the bot's
\* event_loop: a scheduler that has started keeps running.
C14_ConnectFailureKeepsScheduler ==
    \A b \in Bots : loop[b] => ~LoopClosed(b)

\* C16: the coroutines of a bot's loop stay in the order of the calls that
\* handed them over (a later call appends behind the earlier ones, each new
\* coroutine not yet started), and a coroutine starts only when every one
\* handed over before it has started: of two packets routed to the same bot,
\* the handler of the packet that on_receive got first starts first.
C16_HandlersStartInArrivalOrder ==
    [][\A b \in Bots :
          /\ Len(tasks'[b]) >= Len(tasks[b])
          /\ \A j \in 1..Len(tasks[b]) :
                /\ tasks'[b][j].kind = tasks[b][j].kind
                /\ tasks'[b][j].args = tasks[b][j].args
                /\ (tasks[b][j].pc = "queued" /\ tasks'[b][j].pc # "queued")
                   => \A i \in 1..(j - 1) : tasks[b][i].pc # "queued"
          /\ \A j \in (Len(tasks[b]) + 1)..Len(tasks'[b]) :
                tasks'[b][j].pc = "queued"]_vars

\* C16 witness: a bot was handed the handlers of two packets, a broadcast
\* and then a direct message; the first has run and the second has not
\* started.
C16_Witness ==
    \E b \in Bots :
        /\ Len(tasks[b]) = 2
        /\ tasks[b][1].kind = "handle_message"
        /\ tasks[b][1].pc = "done"
        /\ tasks[b][2].kind = "handle_direct_message"
        /\ tasks[b][2].pc = "queued"

\* C17: a step that hands a coroutine to a loop, appends to the pending list
\* or prints (a call of on_receive or on_connection) runs no bot logic: it
\* leaves my_node, my_user and every connect sequence and coroutine already
\* there where they were, and what it hands over has not started; and the
\* connect sequences and handlers of a bot advance only in steps of that
\* bot's own running loop, in which nothing is handed over.
C17_CallbacksOnlyEnqueue ==
    [][\A b \in Bots :
          /\ (\/ Len(tasks'[b]) > Len(tasks[b])
              \/ Len(_connected_bots') > Len(_connected_bots)
              \/ console' > console)
             => /\ my_node' = my_node
                /\ my_user' = my_user
                /\ ev_connect' = ev_connect
                /\ loop' = loop
                /\ \A j \in 1..Len(tasks[b]) : tasks'[b][j] = tasks[b][j]
                /\ \A j \in (Len(tasks[b]) + 1)..Len(tasks'[b]) :
                      tasks'[b][j].pc = "queued"
          /\ (\/ (interface[b] # None /\ my_node'[b] # my_node[b])
              \/ (interface[b] # None /\ my_user'[b] # my_user[b])
              \/ (ev_connect[b] # "none" /\ ev_connect'[b] # ev_connect[b])
              \/ \E j \in 1..Len(tasks[b]) : tasks'[b][j].pc # tasks[b][j].pc)
             => /\ loop[b]
                /\ \A a \in Bots : Len(tasks'[a]) = Len(tasks[a])
                /\ _connected_bots' = _connected_bots]_vars

\* C17 witness: a bot whose loop was handed the connect sequence by
\* on_connection and then a handler by on_receive; the connect sequence has
\* run on the loop and the handler has not started.
C17_Witness ==
    \E b \in Bots :
        /\ Ready(b)
        /\ ev_connect[b] = "none"
        /\ Len(tasks[b]) = 2
        /\ tasks[b][1].kind = "_on_connect"
        /\ tasks[b][1].pc = "done"
        /\ tasks[b][2].kind # "_on_connect"
        /\ tasks[b][2].pc = "queued"

\* The bots whose number of connect sequences grows in the step.
ConnectStarts == {b \in Bots : ConnectSequences(b)' > ConnectSequences(b)}

\* The registered bots bound to b's interface that were registered before b.
RegisteredBefore(b) ==
    {a \in Bots :
        /\ interface[a] = interface[b]
        /\ \E i \in 1..Len(_registered_bots), j \in 1..Len(_registered_bots) :
              i < j /\ _registered_bots[i] = a /\ _registered_bots[j] = b}

\* C18: no step starts the connect sequence of more than one bot, and it
\* starts one sequence only; a sequence that on_connection hands to a loop
\* goes to the first registered bot of the interface whose scheduler runs; a
\* pending entry leaves the list for exactly one bot's event_loop, and every
\* sequence started by an event_loop takes one entry of its interface out.
C18_AtMostOneBotPerEvent ==
    [][/\ Cardinality(ConnectStarts) <= 1
       /\ \A b \in ConnectStarts :
             /\ ConnectSequences(b)' = ConnectSequences(b) + 1
             /\ Len(tasks'[b]) > Len(tasks[b])
                => /\ loop[b]
                   /\ \A a \in RegisteredBefore(b) : ~loop[a]
                   /\ _connected_bots' = _connected_bots
             /\ ev_connect'[b] # ev_connect[b]
                => Count(_connected_bots', interface[b])
                     = Count(_connected_bots, interface[b]) - 1
       /\ Len(_connected_bots') < Len(_connected_bots)
          => /\ Len(_connected_bots') = Len(_connected_bots) - 1
             /\ Cardinality({b \in Bots : ev_connect[b] = "none"
                                          /\ ev_connect'[b] # "none"}) = 1]_vars

\* C18 witness: two bots bound to one interface, both with their scheduler
\* running; one claimed the pending entry and, being the first registered,
\* was also handed the connect sequence of a later event; the other got
\* neither.
C18_Witness ==
    \E a \in Bots, b \in Bots :
        /\ a # b
        /\ interface[a] = interface[b]
        /\ interface[a] # None
        /\ loop[a] /\ loop[b]
        /\ ev_connect[a] # "none"
        /\ \E k \in 1..Len(tasks[a]) : tasks[a][k].kind = "_on_connect"
        /\ ConnectSequences(b) = 0
        /\ _connected_bots = <<>>

\* C19: a call on_receive(packet, c) hands nothing to a bot bound to another
\* interface than c, whatever the packet; a call on_connection(c) leaves the
\* coroutines and the connect sequence of every such bot as they are; and
\* neither call (a step that hands over a handler or a connect sequence)
\* changes any bot's loop, my_node or my_user, the handlers it hands over in
\* one step going to bots of one interface.
C19_OtherConnectionsUntouched ==
    /\ [](\A c \in Conns, packet \in Packets, b \in Bots :
             (interface[b] # None /\ interface[b] # c)
             => on_receive_outcome(packet, c).tasks[b] = tasks[b])
    /\ [][/\ \A c \in Conns :
               on_connection(c)
               => \A b \in Bots :
                     (interface[b] # None /\ interface[b] # c)
                     => /\ tasks'[b] = tasks[b]
                        /\ ev_connect'[b] = ev_connect[b]
          /\ \A a \in Bots :
               Len(tasks'[a]) > Len(tasks[a])
               => /\ loop' = loop
                  /\ my_node' = my_node
                  /\ my_user' = my_user
                  /\ \A b \in Bots :
                        interface[b] # interface[a] => tasks'[b] = tasks[b]]_vars

\* C19 witness: bots on two interfaces with their schedulers running; the
\* one was handed its connect sequence by on_connection and, connected, a
\* handler by on_receive; the other was handed nothing and is as it was
\* when its scheduler started.
C19_Witness ==
    \E a \in Bots, b \in Bots :
        /\ interface[a] # None
        /\ interface[b] # None
        /\ interface[a] # interface[b]
        /\ loop[a] /\ loop[b]
        /\ Len(tasks[a]) = 2
        /\ tasks[a][1].kind = "_on_connect"
        /\ tasks[a][2].kind # "_on_connect"
        /\ tasks[b] = <<>>
        /\ ev_connect[b] = "none"
        /\ my_node[b] = <<>>
        /\ my_user[b] = <<>>

\* C20: in every reachable state, the bot that on_connection(c) calls
\* _handle_on_connection on has its loop set, so the call does not raise
\* "Loop not set up"; and no step unsets a loop that is set.
C20_LoopNotSetUpNeverRaised ==
    /\ [](\A c \in Conns :
             LET b == on_connection_loop(1, c)
             IN b # 0 => /\ loop[b]
                         /\ _handle_on_connection(b).raised # "Loop not set up")
    /\ [][\A b \in Bots : loop[b] => loop'[b]]_vars

\* C20 witness: on_connection passed over a registered bot of the interface
\* whose scheduler had not started and handed the connect sequence to a
\* later registered one whose scheduler runs.
C20_Witness ==
    \E a \in Bots, b \in Bots :
        /\ a \in RegisteredBefore(b)
        /\ a \in Range(_registered_bots)
        /\ ~loop[a]
        /\ loop[b]
        /\ on_connection_loop(1, interface[b]) = b
        /\ \E k \in 1..Len(tasks[b]) : tasks[b][k].kind = "_on_connect"

====
